---- MODULE Spec2Model ----
(***************************************************************************)
(* Evolutionary model search of Pipeline/Learner/Models:                   *)
(*   - Population (EvolutionaryModel/population.py): eval, get_best,       *)
(*     replace and the seeding loop;                                       *)
(*   - EvolutionaryModel (EvolutionaryModel/evolutionaryModel.py): the     *)
(*     constructor, train (the generation loop) and predict;               *)
(*   - RandomForestModel (SpecializedModels/randomForestModel.py): train   *)
(*     with its validation handling, keep-the-better-fit rule and          *)
(*     time-boxed loop; it is the candidate backend FINALIZE retrains;     *)
(*   - create_random_model (EvolutionaryModel/model_creation.py): the      *)
(*     model_config dictionaries drawn from a search space;                *)
(*   - to_dict / _init_from_dictionary of both model classes.              *)
(*                                                                         *)
(* Each part has its own specification (PopSpec, Spec / LiveSpec /         *)
(* SeedSpec, RFSpec, FactorySpec, CodecSpec); the variables of the other   *)
(* parts keep their initial values.                                        *)
(*                                                                         *)
(* Candidates are identified by the integers 1..MaxIds.  A candidate holds *)
(* its own fitness score (fitness[c], None until evaluated); a Chromosome  *)
(* wraps one candidate and exposes that score.  The datasets X, Y, the     *)
(* time allotment and the criterion name are not part of the state: a fit  *)
(* is any score of Scores.  population.py declares Population.__init__ and *)
(* Population.eval with fewer parameters than evolutionaryModel.py passes; *)
(* the model keeps the control flow of both files and abstracts from the   *)
(* argument lists.                                                         *)
(***************************************************************************)
EXTENDS Integers, Sequences, FiniteSets, TLC

\* ---------------------------------------------------------------- bounds
MaxPop == 2
MaxScore == 2
EPOCHS == 2
MaxCalls == 3
MaxTime == 3
MaxDur == 3
MaxLayers == 2
MaxMeta == 2

\* ------------------------------------------------------------- constants
None == -1
DEFAULT_POPULATION_SIZE == 10
DEFAULT_VALIDATION == 20

CLASSIFICATION == "classification"
REGRESSION == "regression"
AVAILABLE_TASKS == {CLASSIFICATION, REGRESSION}

Scores == 0..MaxScore
MaxIds == MaxPop + EPOCHS
Ids == 1..MaxIds

VARIABLES
  config,        \* config["POPULATION_SIZE"], None when absent
  task,          \* self._task
  population,    \* Population._population: the sequence of chromosomes
  population_size, \* Population._population_size; None while
                 \* EvolutionaryModel._population is None
  fitness,       \* candidate -> score held by the candidate, None = unevaluated
  nextId,        \* the next candidate that a factory / crossover creates
  last,          \* the last Population call made directly: what it did
  pc,            \* position of the driver inside train (or the harness mode)
  model,         \* EvolutionaryModel._model
  model_score,   \* EvolutionaryModel._model_score
  epoch,         \* loop variable of train
  mother, father, offspring,
  run,           \* bookkeeping of the current train call
  meta,          \* EvolutionaryModel: the constructor's task argument,
                 \* self._predicted_name, self._input_size, self._output_size
  rf,            \* one RandomForestModel and the train call made on it
  factory,       \* one call of create_random_model: arguments and result
  codec          \* one trained model, its to_dict encoding, the model loaded

vars == <<config, task, population, population_size, fitness, nextId, last, pc, model, model_score,
          epoch, mother, father, offspring, run, meta, rf,
          factory, codec>>

\* the objects that the Population and EvolutionaryModel operations leave alone
auxVars == <<rf, factory, codec>>

drvVars == <<model, model_score, epoch, mother, father, offspring, run, meta>>

\* ------------------------------------------------------------ Chromosome
Chromosome(m) == [model |-> m]

get_model(chromosome) == chromosome.model

\* the candidates a list of chromosomes references
Models(pop) == { get_model(pop[i]) : i \in 1..Len(pop) }

\* the score the wrapped candidate holds; None stands for NotEvaluatedError
get_fitness(chromosome, fit) == fit[chromosome.model]

\* ------------------------------------------------------------ Population
\* Population._is_fitter: is actual_fitness fitter than best_fitness
is_fitter(actual_fitness, best_fitness) ==
  IF task = CLASSIFICATION THEN actual_fitness > best_fitness
                           ELSE actual_fitness < best_fitness

\* Population._create_population: size appended chromosomes
RECURSIVE create_population(_, _)
create_population(size, first) ==
  IF size <= 0 THEN <<>>
  ELSE <<Chromosome(first)>> \o create_population(size - 1, first + 1)

AllEvaluated(pop, fit) == \A i \in 1..Len(pop) : get_fitness(pop[i], fit) # None

\* the scan of Population.get_best (and of Population.eval, on the new scores)
RECURSIVE best_scan(_, _, _, _, _)
best_scan(pop, fit, i, best, best_fitness) ==
  IF i > Len(pop) THEN best
  ELSE LET chromosome_fitness == get_fitness(pop[i], fit) IN
       IF best_fitness = None \/ is_fitter(chromosome_fitness, best_fitness)
       THEN best_scan(pop, fit, i + 1, get_model(pop[i]), chromosome_fitness)
       ELSE best_scan(pop, fit, i + 1, best, best_fitness)

\* a scan whose comparison never succeeds: the first member is returned
get_best_first(pop, fit) == IF Len(pop) = 0 THEN None ELSE get_model(pop[1])

get_best(pop, fit) == best_scan(pop, fit, 1, None, None)

\* the scan of Population.replace: the position of the worst, None if empty
RECURSIVE worst_scan(_, _, _, _, _)
worst_scan(pop, fit, i, worst_position, worst_fitness) ==
  IF i > Len(pop) THEN worst_position
  ELSE LET chromosome_fitness == get_fitness(pop[i], fit) IN
       IF worst_fitness = None \/ is_fitter(worst_fitness, chromosome_fitness)
       THEN worst_scan(pop, fit, i + 1, i, chromosome_fitness)
       ELSE worst_scan(pop, fit, i + 1, worst_position, worst_fitness)

\* a scan whose comparison never succeeds: the first slot is taken as the worst
worst_position_first(pop, fit) == IF Len(pop) = 0 THEN None ELSE 1

worst_position_of(pop, fit) == worst_scan(pop, fit, 1, None, None)

\* a replace that grows the list instead of overwriting a slot
replace_slot_append(pop, worst_position, m) == Append(pop, Chromosome(m))

\* self._population[worst_position] = Chromosome(model)
replace_slot(pop, worst_position, m) ==
  [pop EXCEPT ![worst_position] = Chromosome(m)]

\* outcome of Population.replace(m): "ok", or the exception that leaves the
\* list as it was
replace_result(pop, fit) ==
  IF ~AllEvaluated(pop, fit) THEN "NotEvaluatedError"
  ELSE IF worst_position_of(pop, fit) = None THEN "TypeError"
  ELSE "ok"

replace(pop, fit, m) ==
  IF replace_result(pop, fit) = "ok"
  THEN replace_slot(pop, worst_position_of(pop, fit), m)
  ELSE pop

\* the scores Chromosome.eval leaves: a cached score is kept, an uncached
\* one is any score of the fit
EvalOutcomes(pop, fit) ==
  LET uncached == { c \in Models(pop) : fit[c] = None } IN
  { [c \in Ids |-> IF c \in uncached THEN g[c] ELSE fit[c]] :
      g \in [uncached -> Scores] }

NoCall == [op |-> "none", result |-> "none", arg |-> None, pos |-> None,
           before |-> <<>>, ret |-> None, calls |-> 0]

\* the record of one more direct call
Call(op) == [NoCall EXCEPT !.op = op, !.calls = last.calls + 1,
                           !.before = population]

\* bookkeeping of a train call: what has happened so far
NoRun == [evaluated |-> FALSE,   \* the initial evaluation has finished
          trace     |-> <<>>,    \* the steps of the current generation
          replaced  |-> 0,       \* number of replace calls made
          incoming  |-> None,    \* the candidate given to the last replace
          old       |-> None,    \* the record that the last overwrite replaced
          new       |-> None,    \* the score that the last overwrite recorded
          recorded  |-> None,    \* self._model when the loop ended
          holdout   |-> None,    \* validation share used by the refit, in percent
          refit     |-> "none",  \* "new": the refit's model is the delivered one
          completed |-> FALSE,   \* train has returned
          predict   |-> "none",  \* outcome of the last predict call
          inferred  |-> FALSE]   \* train has inferred the task from Y

\* the arguments of a validation_split parameter: None, a float or an int,
\* the number given in percent (0.2 is 20)
NoValidation == [kind |-> "none", pct |-> None]

\* a RandomForestModel that no call has been made on
NoForest == [pc |-> "absent",            \* position inside train
             task |-> "",                \* self._task
             validation |-> NoValidation, \* the validation_split argument
             validation_split |-> None,  \* the local after "handle validation"
             train_time |-> 0,
             requested_finish |-> 0,
             now |-> 0,                  \* time.time(), in ticks
             seconds_count |-> 0,
             epochs |-> 0,
             keep_training |-> FALSE,
             num |-> 0,                  \* (requested_finish - epoch_end) * epochs
             epochs_to_complete |-> 0,
             model |-> None,             \* self._model: the number of the kept fit
             model_score |-> None,       \* self._model_score
             ret |-> "pending"]          \* what train returned

\* Python strings, as the sequences of their characters
sigmoid == <<"s", "i", "g", "m", "o", "i", "d">>
relu == <<"r", "e", "l", "u">>
smooth == <<"s", "m", "o", "o", "t", "h">>
Adam == <<"A", "d", "a", "m">>
SGD == <<"S", "G", "D">>

Str(s) == [kind |-> "str", value |-> s]
List(l) == [kind |-> "list", value |-> l]

\* the model_config of a candidate that has not been built
NoConfig == [OPTIMIZER |-> <<>>, LEARNING_RATE |-> 0, MOMENTUM |-> 0,
             HIDDEN_LAYERS |-> List(<<>>), ACTIVATIONS |-> List(<<>>),
             DROPOUT |-> 0]

NoSpace == [MODELS |-> <<>>, OPTIMIZER_CHOICE |-> <<>>,
            LEARNING_RATE_RANGE |-> <<0, 0>>, MOMENTUM_RANGE |-> <<0, 0>>,
            DROPOUT_RANGE |-> <<0, 0>>, HIDDEN_LAYERS_CHOICES |-> <<>>,
            ACTIVATION_CHOICES |-> <<>>]

\* no call of the candidate factory
NoFactory == [pc |-> "absent", task |-> "", space |-> NoSpace,
              result |-> "pending", model_config |-> NoConfig]

\* an EvolutionaryModel that has not been constructed
NoMeta == [task |-> "", predicted_name |-> None, input_size |-> 0,
           output_size |-> 0]

\* the tags of modelTypes
RANDOM_FOREST_MODEL == "random_forest"
EVOLUTIONARY_MODEL == "evolutionary"

\* placeholders of the codec: no model, no dictionary
NoModel == [type |-> "none"]
NoDict == [MODEL_TYPE |-> "none"]

NoCodec == [pc |-> "absent", m |-> NoModel, d |-> NoDict, loaded |-> NoModel]

AuxIdle == rf = NoForest /\ factory = NoFactory /\ codec = NoCodec

\* ----------------------------------------- Population used on its own
PopInit ==
  /\ AuxIdle
  /\ task \in AVAILABLE_TASKS
  /\ \E n \in 0..MaxPop :
       /\ config = n
       /\ population_size = n
       /\ population = create_population(n, 1)
       /\ nextId = n + 1
  /\ fitness = [c \in Ids |-> None]
  /\ last = NoCall
  /\ pc = "population"
  /\ model = None /\ model_score = None /\ epoch = 0
  /\ mother = None /\ father = None /\ offspring = None
  /\ run = NoRun /\ meta = NoMeta

\* Population.eval(X, Y)
PopEval ==
  /\ UNCHANGED auxVars
  /\ pc = "population" /\ last.calls < MaxCalls
  /\ \E f \in EvalOutcomes(population, fitness) :
       /\ fitness' = f
       /\ last' = [Call("eval") EXCEPT !.result = "ok",
                                       !.ret = get_best(population, f)]
  /\ UNCHANGED <<config, task, population, population_size, nextId, pc>>
  /\ UNCHANGED drvVars

\* Population.get_best()
PopGetBest ==
  /\ UNCHANGED auxVars
  /\ pc = "population" /\ last.calls < MaxCalls
  /\ last' = [Call("get_best") EXCEPT
                !.result = IF AllEvaluated(population, fitness)
                           THEN "ok" ELSE "NotEvaluatedError",
                !.ret = IF AllEvaluated(population, fitness)
                        THEN get_best(population, fitness) ELSE None]
  /\ UNCHANGED <<config, task, population, population_size, fitness, nextId, pc>>
  /\ UNCHANGED drvVars

\* Population.replace(m): m is a candidate the population handed out (the
\* model of a member) or a new one, which the caller may or may not have
\* evaluated
PopReplace ==
  /\ UNCHANGED auxVars
  /\ pc = "population" /\ last.calls < MaxCalls
  /\ \E m \in Models(population) \cup {nextId} : \E s \in Scores \cup {None} :
       /\ m <= MaxIds
       /\ (m < nextId => s = fitness[m])
       /\ fitness' = [fitness EXCEPT ![m] = s]
       /\ nextId' = IF m = nextId THEN nextId + 1 ELSE nextId
       /\ population' = replace(population, fitness, m)
       /\ last' = [Call("replace") EXCEPT
                     !.arg = m,
                     !.result = replace_result(population, fitness),
                     !.pos = IF replace_result(population, fitness) = "ok"
                             THEN worst_position_of(population, fitness)
                             ELSE None]
  /\ UNCHANGED <<config, task, population_size, pc>>
  /\ UNCHANGED drvVars

PopNext == PopEval \/ PopGetBest \/ PopReplace

PopSpec == PopInit /\ [][PopNext]_vars

\* ------------------------------------------------------ RandomForestModel
\* a handling that passes every fraction on as it is
handle_validation_unchecked(validation_split) == validation_split

\* RandomForestModel.train, "handle validation": the share of the data held
\* out, in percent; None = no holdout
handle_validation(validation_split) ==
  IF validation_split = None THEN None
  ELSE IF validation_split < 0 \/ validation_split >= 100
       THEN DEFAULT_VALIDATION
       ELSE validation_split

\* RandomForestModel.train: does the new fit replace self._model
keeps_new_fit(t, score, criterion) ==
  \/ t = CLASSIFICATION /\ (score = None \/ score < criterion)
  \/ t = REGRESSION /\ (score = None \/ score > criterion)

\* the task kinds the inference on the targets can give
determine_task_type == AVAILABLE_TASKS

\* type(validation_split) != float
is_float(v) == v.kind = "float"

Max(a, b) == IF a >= b THEN a ELSE b

\* int(n / d) for d > 0: the quotient cut towards zero
int_part(n, d) == IF n >= 0 THEN n \div d ELSE -((-n) \div d)

\* a rounding that always cuts the quotient
epochs_to_complete_cut(n, d) == int_part(n, d)

\* RandomForestModel.train, the rounding of epochs_to_complete = n / d:
\* one more than the integer part when the rest is at least 0.5
epochs_to_complete(n, d) ==
  IF 2 * (n - int_part(n, d) * d) >= d THEN int_part(n, d) + 1
                                       ELSE int_part(n, d)

ValidationInputs ==
  {NoValidation}
    \cup { [kind |-> "float", pct |-> p] : p \in {-10, 0, 20, 50, 100, 150} }
    \cup { [kind |-> "int", pct |-> p] : p \in {0, 100, 200} }

\* RandomForestModel.__init__
RFInit ==
  /\ \E t \in {""} \cup AVAILABLE_TASKS :
       rf = [NoForest EXCEPT !.pc = "idle", !.task = t]
  /\ factory = NoFactory /\ codec = NoCodec
  /\ config = None /\ task = "" /\ population = <<>>
  /\ population_size = None /\ nextId = 1
  /\ fitness = [c \in Ids |-> None]
  /\ last = NoCall
  /\ pc = "forest"
  /\ model = None /\ model_score = None /\ epoch = 0
  /\ mother = None /\ father = None /\ offspring = None
  /\ run = NoRun /\ meta = NoMeta

\* RandomForestModel.train up to the loop: the task, the validation
\* handling and the time bookkeeping
RFTrainBegin ==
  /\ UNCHANGED <<factory, codec>>
  /\ pc = "forest" /\ rf.pc = "idle"
  /\ \E v \in ValidationInputs : \E t \in 0..MaxTime :
     \E inferred \in determine_task_type :
       LET resolved == IF rf.task \in AVAILABLE_TASKS THEN rf.task
                                                     ELSE inferred
           begun == [rf EXCEPT !.task = resolved, !.validation = v,
                               !.train_time = t]
       IN  IF v # NoValidation /\ ~is_float(v)
           THEN rf' = [begun EXCEPT !.pc = "raised"]
           ELSE rf' = [begun EXCEPT
                         !.pc = "fitting",
                         !.validation_split = handle_validation(v.pct),
                         !.requested_finish = rf.now + t,
                         !.keep_training = TRUE]
  /\ UNCHANGED <<config, task, population, population_size, fitness, nextId,
                 last, pc>>
  /\ UNCHANGED drvVars

\* one pass of "while keep_training": a fit with score criterion that takes
\* d ticks; when the loop is left train ends without a return statement
RFEpoch ==
  /\ UNCHANGED <<factory, codec>>
  /\ pc = "forest" /\ rf.pc = "fitting" /\ rf.keep_training
  /\ \E criterion \in Scores : \E d \in 1..MaxDur :
       LET epoch_end == rf.now + d
           seconds == rf.seconds_count + d
           n == rf.epochs + 1
           num == (rf.requested_finish - epoch_end) * n
           rounded == epochs_to_complete(num, seconds)
           keeps == keeps_new_fit(rf.task, rf.model_score, criterion)
       IN  rf' = [rf EXCEPT
                    !.model = IF keeps THEN n ELSE rf.model,
                    !.model_score = IF keeps THEN criterion
                                             ELSE rf.model_score,
                    !.now = epoch_end,
                    !.seconds_count = seconds,
                    !.epochs = n,
                    !.num = num,
                    !.epochs_to_complete = rounded,
                    !.keep_training = rounded > 0,
                    !.pc = IF rounded > 0 THEN "fitting" ELSE "returned",
                    !.ret = IF rounded > 0 THEN "pending" ELSE "None"]
  /\ UNCHANGED <<config, task, population, population_size, fitness, nextId,
                 last, pc>>
  /\ UNCHANGED drvVars

RFNext == RFTrainBegin \/ RFEpoch

RFSpec == RFInit /\ [][RFNext]_vars

\* ---------------------------------------------------------- model_creation
\* random.choice(seq): the values it can return
choice(seq) == { seq[i] : i \in 1..Len(seq) }

\* random.uniform(a, b) and random.randint(a, b), on the grid of integers
uniform(range) == range[1]..range[2]
randint(a, b) == a..b

\* layers: "smooth" for a string choice, else layer_count widths
layers_of(layer_choice) ==
  IF layer_choice.kind = "str" THEN {Str(smooth)}
  ELSE LET lc == layer_choice.value IN
       { List(l) : l \in UNION { [1..layer_count -> randint(lc[1], lc[2])] :
                     layer_count \in randint(1, Max(lc[3], 1)) } }

\* activation, before the override for classification
activation_of(activation_choice, layers, choices) ==
  IF activation_choice = "uniform" \/ layers.kind = "str"
  THEN { Str(<<c>>) : c \in UNION { choice(a) : a \in choice(choices) } }
  ELSE { List(l) : l \in [1..(Len(layers.value) + 1) -> choice(choices)] }

\* if task == CLASSIFICATION: "sigmoid" is used in the last layer
last_layer(t, activation) ==
  IF t # CLASSIFICATION THEN activation
  ELSE IF activation.kind = "str" THEN Str(sigmoid)
  ELSE List([activation.value EXCEPT ![Len(activation.value)] = sigmoid])

\* the model_config dictionaries create_deep_learning_model can build
create_deep_learning_model(cfg, t) ==
  UNION { UNION {
    { [OPTIMIZER |-> optimizer, LEARNING_RATE |-> learning_rate,
       MOMENTUM |-> momentum, HIDDEN_LAYERS |-> layers,
       ACTIVATIONS |-> last_layer(t, activation), DROPOUT |-> dropout] :
        optimizer \in choice(cfg.OPTIMIZER_CHOICE),
        learning_rate \in uniform(cfg.LEARNING_RATE_RANGE),
        momentum \in uniform(cfg.MOMENTUM_RANGE),
        activation \in activation_of(activation_choice, layers,
                                     cfg.ACTIVATION_CHOICES),
        dropout \in uniform(cfg.DROPOUT_RANGE) } :
      activation_choice \in {"uniform", "list"} } :
    layers \in UNION { layers_of(layer_choice) :
                 layer_choice \in choice(cfg.HIDDEN_LAYERS_CHOICES) } }

\* the search spaces given to the factory: the defaults of the source, with
\* the ranges, the width bounds and the layer bound varied
Ranges == {<<0, 1>>, <<1, 1>>}
WidthBounds == {<<1, 2>>, <<2, 2>>}
ModelOptions == {<<"neural_network">>, <<"neural_network", "some_future_type">>}

SearchSpaces ==
  { [MODELS |-> m, OPTIMIZER_CHOICE |-> <<Adam, SGD>>,
     LEARNING_RATE_RANGE |-> r, MOMENTUM_RANGE |-> <<0, 1>>,
     DROPOUT_RANGE |-> r,
     HIDDEN_LAYERS_CHOICES |-> <<Str(smooth), List(<<w[1], w[2], b>>)>>,
     ACTIVATION_CHOICES |-> <<sigmoid, relu>>] :
      m \in ModelOptions, r \in Ranges, w \in WidthBounds, b \in 0..MaxLayers }

\* the caller of the factory: a search space and a task
FactoryInit ==
  /\ \E cfg \in SearchSpaces : \E t \in AVAILABLE_TASKS :
       factory = [NoFactory EXCEPT !.pc = "called", !.space = cfg, !.task = t]
  /\ rf = NoForest /\ codec = NoCodec
  /\ config = None /\ task = "" /\ population = <<>>
  /\ population_size = None /\ nextId = 1
  /\ fitness = [c \in Ids |-> None]
  /\ last = NoCall
  /\ pc = "factory"
  /\ model = None /\ model_score = None /\ epoch = 0
  /\ mother = None /\ father = None /\ offspring = None
  /\ run = NoRun /\ meta = NoMeta

\* create_random_model(in_size, out_size, config, task)
CreateRandomModel ==
  /\ pc = "factory" /\ factory.pc = "called"
  /\ \E model_type \in choice(factory.space.MODELS) :
       IF model_type = "neural_network"
       THEN \E model_config \in
                 create_deep_learning_model(factory.space, factory.task) :
              factory' = [factory EXCEPT !.pc = "returned",
                                         !.result = "model",
                                         !.model_config = model_config]
       ELSE factory' = [factory EXCEPT !.pc = "returned", !.result = "None"]
  /\ UNCHANGED <<config, task, population, population_size, fitness, nextId,
                 last, pc, rf, codec>>
  /\ UNCHANGED drvVars

FactoryNext == CreateRandomModel

FactorySpec == FactoryInit /\ [][FactoryNext]_vars

\* ------------------------------------------------------ to_dict / loading
\* dict.get(key): None when the key is absent
get(d, key) == IF key \in DOMAIN d THEN d[key] ELSE None

\* pickle.dumps / pickle.loads of the fitted estimator
pickle_dumps(obj) == [pickled |-> obj]
pickle_loads(bytes) == bytes.pickled

\* RandomForestModel.to_dict
rf_to_dict(m) ==
  [MODEL_TYPE |-> RANDOM_FOREST_MODEL,
   MODEL_DATA |-> [MODEL |-> pickle_dumps(m.model),
                   METADATA |-> [PREDICTED_NAME |-> m.predicted_name,
                                 CONFIG |-> m.config,
                                 TASK |-> m.task]]]

\* a loading that looks the predicted names up under the key of the
\* EvolutionaryModel
rf_init_from_dictionary_pred_name(dictionary) ==
  LET data == get(dictionary, "MODEL_DATA")
      mdata == get(data, "METADATA")
  IN  [type |-> RANDOM_FOREST_MODEL,
       predicted_name |-> get(mdata, "PRED_NAME"),
       config |-> get(mdata, "CONFIG"),
       task |-> get(mdata, "TASK"),
       model |-> pickle_loads(get(data, "MODEL"))]

\* RandomForestModel._init_from_dictionary
rf_init_from_dictionary(dictionary) ==
  LET data == get(dictionary, "MODEL_DATA")
      mdata == get(data, "METADATA")
  IN  [type |-> RANDOM_FOREST_MODEL,
       predicted_name |-> get(mdata, "PREDICTED_NAME"),
       config |-> get(mdata, "CONFIG"),
       task |-> get(mdata, "TASK"),
       model |-> pickle_loads(get(data, "MODEL"))]

\* EvolutionaryModel.to_dict of a trained model: self._model is a
\* RandomForestModel
evo_to_dict(m) ==
  [MODEL_TYPE |-> EVOLUTIONARY_MODEL,
   MODEL_DATA |-> [MODEL |-> rf_to_dict(m.model),
                   METADATA |-> [PRED_NAME |-> m.predicted_name,
                                 TASK |-> m.task,
                                 CONFIG |-> m.config,
                                 INPUT_SIZE |-> m.input_size,
                                 OUTPUT_SIZE |-> m.output_size]]]

\* load_model of an encoded backend: the constructor registered for the tag
load_backend(d) ==
  IF get(d, "MODEL_TYPE") = RANDOM_FOREST_MODEL
  THEN rf_init_from_dictionary(d)
  ELSE [type |-> "UnknownModelTypeError"]

\* EvolutionaryModel._init_from_dictionary
evo_init_from_dictionary(dictionary) ==
  LET d == get(dictionary, "MODEL_DATA")
      data == get(d, "METADATA")
  IN  [type |-> EVOLUTIONARY_MODEL,
       predicted_name |-> get(data, "PRED_NAME"),
       task |-> get(data, "TASK"),
       config |-> get(data, "CONFIG"),
       input_size |-> get(data, "INPUT_SIZE"),
       output_size |-> get(data, "OUTPUT_SIZE"),
       model |-> load_backend(get(d, "MODEL"))]

\* to_dict of either class
to_dict(m) == IF m.type = EVOLUTIONARY_MODEL THEN evo_to_dict(m)
                                             ELSE rf_to_dict(m)

\* load_model(dictionary): the constructor registered for MODEL_TYPE, called
\* with dictionary=...
load_model(d) ==
  IF get(d, "MODEL_TYPE") = EVOLUTIONARY_MODEL THEN evo_init_from_dictionary(d)
  ELSE load_backend(d)

\* the trained models: the values of the fields are numbered
MetaValues == 1..MaxMeta

TrainedForests ==
  [type : {RANDOM_FOREST_MODEL}, predicted_name : MetaValues,
   config : {None} \cup 1..MaxPop, task : AVAILABLE_TASKS, model : MetaValues]

TrainedEvolutionary ==
  [type : {EVOLUTIONARY_MODEL}, predicted_name : MetaValues,
   task : AVAILABLE_TASKS, config : {None} \cup 1..MaxPop,
   input_size : MetaValues, output_size : MetaValues, model : TrainedForests]

\* a trained model of either class
CodecInit ==
  /\ \E m \in TrainedForests \cup TrainedEvolutionary :
       codec = [NoCodec EXCEPT !.pc = "trained", !.m = m]
  /\ rf = NoForest /\ factory = NoFactory
  /\ config = None /\ task = "" /\ population = <<>>
  /\ population_size = None /\ nextId = 1
  /\ fitness = [c \in Ids |-> None]
  /\ last = NoCall
  /\ pc = "codec"
  /\ model = None /\ model_score = None /\ epoch = 0
  /\ mother = None /\ father = None /\ offspring = None
  /\ run = NoRun /\ meta = NoMeta

\* m.to_dict()
ToDict ==
  /\ pc = "codec" /\ codec.pc = "trained"
  /\ codec' = [codec EXCEPT !.pc = "encoded", !.d = to_dict(codec.m)]
  /\ UNCHANGED <<config, task, population, population_size, fitness, nextId,
                 last, pc, rf, factory>>
  /\ UNCHANGED drvVars

\* load_model(d) of the dictionary written before
LoadModel ==
  /\ pc = "codec" /\ codec.pc = "encoded"
  /\ codec' = [codec EXCEPT !.pc = "decoded", !.loaded = load_model(codec.d)]
  /\ UNCHANGED <<config, task, population, population_size, fitness, nextId,
                 last, pc, rf, factory>>
  /\ UNCHANGED drvVars

CodecNext == ToDict \/ LoadModel

CodecSpec == CodecInit /\ [][CodecNext]_vars

\* ------------------------------------------------------ EvolutionaryModel
\* a lookup without the default: no key, no chromosomes
population_size_of_no_default(cfg) == IF cfg = None THEN 0 ELSE cfg

\* config.get("POPULATION_SIZE", 10)
population_size_of(cfg) == IF cfg = None THEN DEFAULT_POPULATION_SIZE ELSE cfg

\* a loop that runs one iteration too many
loop_head_inclusive(e) == IF e <= EPOCHS THEN "select_mother" ELSE "finalize"

\* for epoch in range(EPOCHS)
loop_head(e) == IF e < EPOCHS THEN "select_mother" ELSE "finalize"

\* a loop body that puts the offspring into the population before scoring it
next_step_replace_first(step) ==
  CASE step = "select_mother" -> "select_father"
    [] step = "select_father" -> "crossover"
    [] step = "crossover" -> "mutate"
    [] step = "mutate" -> "replace"
    [] step = "replace" -> "evaluate_offspring"
    [] OTHER -> "loop"

\* the statement order of the loop body
next_step(step) ==
  CASE step = "select_mother" -> "select_father"
    [] step = "select_father" -> "crossover"
    [] step = "crossover" -> "mutate"
    [] step = "mutate" -> "evaluate_offspring"
    [] step = "evaluate_offspring" -> "replace"
    [] OTHER -> "loop"

Goto(step) == IF step = "loop" THEN loop_head(epoch + 1) ELSE step

EpochAfter(step) == IF next_step(step) = "loop" THEN epoch + 1 ELSE epoch

\* self._model_score is None or self._model_score > score
improves_record(recorded_score, score) ==
  recorded_score = None \/ recorded_score > score

Step(name) == [run EXCEPT !.trace = Append(run.trace, name)]

\* the arguments predicted_name, in_size and out_size of the constructor
Metas(names, sizes) ==
  [task : {""}, predicted_name : names, input_size : sizes, output_size : sizes]

\* EvolutionaryModel.__init__ with config["POPULATION_SIZE"] in sizes_cfg
\* (None = no such key) and the other arguments in metas
Construct(sizes_cfg, metas) ==
  /\ AuxIdle
  /\ config \in sizes_cfg
  /\ task \in {""} \cup AVAILABLE_TASKS
  /\ \E a \in metas : meta = [a EXCEPT !.task = task]
  /\ IF task \in AVAILABLE_TASKS
     THEN /\ population_size = population_size_of(config)
          /\ population = create_population(population_size_of(config), 1)
          /\ nextId = population_size_of(config) + 1
     ELSE /\ population_size = None
          /\ population = <<>>
          /\ nextId = 1
  /\ fitness = [c \in Ids |-> None]
  /\ last = NoCall
  /\ pc = "idle"
  /\ model = None /\ model_score = None /\ epoch = 0
  /\ mother = None /\ father = None /\ offspring = None
  /\ run = NoRun

\* a model constructed with a POPULATION_SIZE and the predicted names
Init == Construct(1..MaxPop, Metas({1}, {1}))

\* a model constructed with or without a POPULATION_SIZE, with or without
\* predicted names
SeedInit ==
  Construct({None} \cup 1..MaxPop, Metas({None} \cup MetaValues, MetaValues))

\* train, up to the initial evaluation: the task and the population
TrainBegin ==
  /\ UNCHANGED auxVars
  /\ pc = "idle"
  /\ IF task \notin AVAILABLE_TASKS \/ population_size = None
     THEN /\ task' \in determine_task_type
          /\ population_size' = population_size_of(config)
          /\ population' = create_population(population_size_of(config), nextId)
          /\ nextId' = nextId + population_size_of(config)
          /\ run' = [run EXCEPT !.inferred = TRUE]
     ELSE UNCHANGED <<task, population_size, population, nextId, run>>
  /\ \E columns \in MetaValues :
       meta' = IF meta.predicted_name = None
               THEN [meta EXCEPT !.predicted_name = columns]
               ELSE meta
  /\ pc' = "evaluating"
  /\ UNCHANGED <<config, fitness, last, model, model_score, epoch,
                 mother, father, offspring>>

\* the constructor and train up to the initial evaluation
SeedSpec == SeedInit /\ [][TrainBegin]_vars

\* self._population.eval(...)
InitialEval ==
  /\ UNCHANGED <<meta, rf, factory, codec>>
  /\ pc = "evaluating"
  /\ fitness' \in EvalOutcomes(population, fitness)
  /\ run' = [run EXCEPT !.evaluated = TRUE]
  /\ epoch' = 0
  /\ pc' = loop_head(0)
  /\ UNCHANGED <<config, task, population, population_size, nextId, last,
                 model, model_score, mother, father, offspring>>

\* mother = self._population.selection()
SelectMother ==
  /\ UNCHANGED <<meta, rf, factory, codec>>
  /\ pc = "select_mother"
  /\ mother' \in Models(population)
  /\ run' = [run EXCEPT !.trace = <<"select">>]
  /\ pc' = Goto(next_step(pc))
  /\ UNCHANGED <<config, task, population, population_size, fitness, nextId,
                 last, model, model_score, epoch, father, offspring>>

\* father = self._population.selection()
SelectFather ==
  /\ UNCHANGED <<meta, rf, factory, codec>>
  /\ pc = "select_father"
  /\ father' \in Models(population)
  /\ run' = Step("select")
  /\ pc' = Goto(next_step(pc))
  /\ UNCHANGED <<config, task, population, population_size, fitness, nextId,
                 last, model, model_score, epoch, mother, offspring>>

\* offspring = self._population.XO(mother, father): a new candidate
Crossover ==
  /\ UNCHANGED <<meta, rf, factory, codec>>
  /\ pc = "crossover"
  /\ nextId <= MaxIds
  /\ offspring' = nextId
  /\ nextId' = nextId + 1
  /\ mother' = None /\ father' = None
  /\ run' = Step("crossover")
  /\ pc' = Goto(next_step(pc))
  /\ UNCHANGED <<config, task, population, population_size, fitness, last,
                 model, model_score, epoch>>

\* offspringm = self._population.mutation(offspring): the same candidate
Mutate ==
  /\ UNCHANGED <<meta, rf, factory, codec>>
  /\ pc = "mutate"
  /\ run' = Step("mutate")
  /\ pc' = Goto(next_step(pc))
  /\ UNCHANGED <<config, task, population, population_size, fitness, nextId,
                 last, model, model_score, epoch, mother, father, offspring>>

\* score = offspringm.eval(...), then the record of the best so far
EvaluateOffspring ==
  /\ UNCHANGED <<meta, rf, factory, codec>>
  /\ pc = "evaluate_offspring"
  /\ \E score \in Scores :
       /\ fitness' = [fitness EXCEPT ![offspring] = score]
       /\ IF improves_record(model_score, score)
          THEN /\ model_score' = score
               /\ model' = offspring
               /\ run' = [Step("evaluate") EXCEPT !.old = model_score,
                                                  !.new = score]
          ELSE /\ UNCHANGED <<model, model_score>>
               /\ run' = Step("evaluate")
  /\ pc' = Goto(next_step(pc))
  /\ epoch' = EpochAfter(pc)
  /\ UNCHANGED <<config, task, population, population_size, nextId, last,
                 mother, father, offspring>>

\* self._population.replace(offspringm), the end of the loop body
Replace ==
  /\ UNCHANGED <<meta, rf, factory, codec>>
  /\ pc = "replace"
  /\ population' = replace(population, fitness, offspring)
  /\ run' = [Step("replace") EXCEPT !.replaced = run.replaced + 1,
                                    !.incoming = offspring]
  /\ IF replace_result(population, fitness) = "ok"
     THEN /\ pc' = Goto(next_step(pc))
          /\ epoch' = EpochAfter(pc)
     ELSE /\ pc' = "failed"
          /\ UNCHANGED epoch
  /\ UNCHANGED <<config, task, population_size, fitness, nextId, last,
                 model, model_score, mother, father, offspring>>

\* self._model = self._population.get_best().get_model(), then
\* self._model.train(X, Y, train_time) with the default validation_split and
\* train_time = 0 (one fit), then return self._model
Finalize ==
  /\ UNCHANGED <<meta, rf, factory, codec>>
  /\ pc = "finalize"
  /\ IF ~AllEvaluated(population, fitness)
     THEN /\ pc' = "failed"
          /\ UNCHANGED <<model, fitness, run>>
     ELSE LET best == get_best(population, fitness) IN
          \E criterion \in Scores :
            /\ model' = best
            /\ fitness' = IF keeps_new_fit(task, fitness[best], criterion)
                          THEN [fitness EXCEPT ![best] = criterion]
                          ELSE fitness
            /\ run' = [run EXCEPT
                         !.recorded = model,
                         !.holdout = handle_validation(DEFAULT_VALIDATION),
                         !.refit = IF keeps_new_fit(task, fitness[best], criterion)
                                   THEN "new" ELSE "kept",
                         !.completed = TRUE]
            /\ pc' = "done"
  /\ UNCHANGED <<config, task, population, population_size, nextId, last,
                 model_score, epoch, mother, father, offspring>>

\* a fit of the backend raises: the exception leaves train where it is
FitRaises ==
  /\ UNCHANGED <<meta, rf, factory, codec>>
  /\ pc \in {"evaluating", "evaluate_offspring"}
  /\ pc' = "failed"
  /\ UNCHANGED <<config, task, population, population_size, fitness, nextId,
                 last, model, model_score, epoch, mother, father, offspring,
                 run>>

\* EvolutionaryModel.predict(X), called when no train call is running
Predict ==
  /\ UNCHANGED <<meta, rf, factory, codec>>
  /\ pc \in {"idle", "failed", "done"}
  /\ run' = [run EXCEPT !.predict = IF model = None THEN "raised"
                                                    ELSE "returned"]
  /\ UNCHANGED <<config, task, population, population_size, fitness, nextId,
                 last, pc, model, model_score, epoch, mother, father,
                 offspring>>

TrainStep ==
  \/ TrainBegin
  \/ InitialEval
  \/ SelectMother
  \/ SelectFather
  \/ Crossover
  \/ Mutate
  \/ EvaluateOffspring
  \/ Replace
  \/ Finalize

Next == TrainStep \/ FitRaises \/ Predict

Spec == Init /\ [][Next]_vars

\* a run in which no fit raises: every step of train is eventually taken
LiveSpec == Init /\ [][TrainStep]_vars /\ WF_vars(TrainStep)

\* ------------------------------------------------ properties of Population
ReplaceOk == last.op = "replace" /\ last.result = "ok"

Removed == last.before[last.pos].model

\* a is strictly less fit than b for the task at hand, stated on the numbers
LessFit(a, b) ==
  \/ task = CLASSIFICATION /\ a < b
  \/ task = REGRESSION /\ a > b

DistinctScores(pop) ==
  \A i, j \in 1..Len(pop) : i # j => fitness[pop[i].model] # fitness[pop[j].model]

\* C1: once seeded with N chromosomes the population holds N chromosomes in
\* every state, whatever replace calls are made with whatever candidates.
C1_Cardinality == Len(population) = population_size

C1_Witness ==
  /\ ReplaceOk /\ last.calls >= 2
  /\ population_size >= 2
  /\ population # last.before

C6_ReplaceEvaluatesIncoming ==
  ReplaceOk => fitness[last.arg] # None /\ AllEvaluated(population, fitness)

\* --------------------------------------------- properties of the driver
LoopBody == <<"select", "select", "crossover", "mutate", "evaluate", "replace">>

IsPrefix(s, t) == Len(s) <= Len(t) /\ \A i \in 1..Len(s) : s[i] = t[i]

Evaluated == { c \in Ids : fitness[c] # None }

\* C3: when train has returned, no candidate evaluated during the run is
\* strictly fitter than the returned model, and the returned model is the
\* one the loop recorded as the best so far.
C3_ReturnsFittestEvaluated ==
  pc = "done" =>
    /\ \A c \in Evaluated : ~LessFit(fitness[model], fitness[c])
    /\ model = run.recorded

\* C4: the recorded best score is overwritten only by a score that is
\* strictly fitter for the task than the one recorded before.
C4_RecordOnlyWhenFitter == run.old # None => LessFit(run.old, run.new)

C8_GenerationOrder ==
  /\ IsPrefix(run.trace, LoopBody)
  /\ run.replaced > 0 => run.evaluated
  /\ pc \in {"select_mother", "finalize", "done"} =>
       /\ run.replaced = epoch
       /\ epoch > 0 => run.trace = LoopBody
  /\ pc \in {"select_father", "crossover", "mutate", "evaluate_offspring",
             "replace"} => run.replaced = epoch
  /\ run.replaced > 0 =>
       /\ fitness[run.incoming] # None
       /\ run.incoming \in Models(population)
       /\ (run.trace = LoopBody => run.incoming = offspring)

C8_Witness ==
  /\ pc = "finalize"
  /\ run.replaced >= 2
  /\ run.trace = LoopBody
  /\ model # None /\ model # run.incoming

\* C9: the model train returns was refit without a validation holdout and
\* is the model that refit produced.
C9_RefitWithoutHoldout ==
  pc = "done" => run.holdout = None /\ run.refit = "new"

\* C10: predict returns a result only after a train call has completed;
\* before that it raises.
C10_PredictNeedsCompletedTrain ==
  /\ run.predict = "returned" => run.completed
  /\ (run.predict = "raised" /\ pc = "idle") => model = None

\* C14: get_best and replace called on a population with no chromosomes
\* fail with EmptyPopulationError and leave the population as it was; they
\* never return a null candidate and never write a slot.
C14_EmptyPopulationFails ==
  (last.op \in {"get_best", "replace"} /\ Len(last.before) = 0) =>
    /\ last.result = "EmptyPopulationError"
    /\ last.ret = None
    /\ population = last.before

\* ------------------------------------------ properties of RandomForestModel
\* the validation_split argument is a number outside [0, 1)
OutOfRange(v) == v # NoValidation /\ (v.pct < 0 \/ v.pct >= 100)

RFStarted == rf.pc \in {"fitting", "returned", "raised"}

\* C11 (amended): train called with a float validation fraction outside
\* [0, 1) raises no exception: the fraction is replaced by 0.2 and training
\* proceeds with a 0.2 holdout; a float inside [0, 1) is used unchanged; a
\* validation_split that is neither None nor a float makes train raise
\* before any fit.
C11_ValidationFraction ==
  /\ (RFStarted /\ is_float(rf.validation)) =>
       /\ rf.pc # "raised"
       /\ rf.validation_split =
            IF OutOfRange(rf.validation) THEN 20 ELSE rf.validation.pct
       /\ rf.pc = "returned" => rf.epochs >= 1 /\ rf.model # None
  /\ (RFStarted /\ rf.validation # NoValidation /\ ~is_float(rf.validation)) =>
       rf.pc = "raised" /\ rf.epochs = 0

C11_Witness ==
  /\ rf.pc = "returned"
  /\ rf.validation = [kind |-> "float", pct |-> 150]
  /\ rf.validation_split = 20
  /\ rf.epochs >= 1

\* C11 as stated: no validation fraction outside [0, 1) makes train raise;
\* each is replaced by 0.2.
C11_OutOfRangeNeverRaises ==
  (RFStarted /\ OutOfRange(rf.validation)) =>
    rf.pc # "raised" /\ rf.validation_split = DEFAULT_VALIDATION

\* C13: a train call that returns normally returns the receiver itself,
\* the trained instance of the very object it was called on: never null,
\* never a different object.
C13_TrainReturnsReceiver == rf.pc = "returned" => rf.ret = "self"

\* n / d rounded to the nearest integer, halves upwards (d > 0)
round_half_up(n, d) == (2 * n + d) \div (2 * d)

\* C17 (amended): the time-boxed fit loop runs at least one iteration;
\* after each iteration it divides the time left to the deadline by the
\* average iteration duration, cuts the quotient towards zero and adds one
\* when the rest is at least 0.5: for a quotient >= 0 that is the nearest
\* integer, halves upwards; a negative quotient is only cut towards zero
\* (-0.67 gives 0).  Another iteration is scheduled iff that value is
\* greater than zero, that is iff the quotient is at least 0.5.  With a
\* time budget of 0 exactly one iteration runs, and with every iteration
\* taking at least one tick the loop ends after at most max(1, budget)
\* iterations.
C17_TimeBoxedLoop ==
  /\ (rf.pc = "fitting" /\ rf.epochs = 0) => rf.keep_training
  /\ rf.pc = "returned" => rf.epochs >= 1
  /\ rf.epochs >= 1 =>
       /\ rf.num = (rf.requested_finish - rf.now) * rf.epochs
       /\ rf.num >= 0 =>
            rf.epochs_to_complete = round_half_up(rf.num, rf.seconds_count)
       /\ rf.num < 0 =>
            /\ rf.epochs_to_complete <= 0
            /\ rf.epochs_to_complete >= round_half_up(rf.num, rf.seconds_count)
       /\ rf.keep_training <=> rf.epochs_to_complete > 0
       /\ rf.keep_training <=> round_half_up(rf.num, rf.seconds_count) > 0
       /\ rf.keep_training <=> 2 * rf.num >= rf.seconds_count
       /\ rf.pc = (IF rf.keep_training THEN "fitting" ELSE "returned")
       /\ rf.train_time = 0 => rf.epochs = 1 /\ rf.pc = "returned"
       /\ rf.epochs <= Max(1, rf.train_time)

\* an iteration that left exactly half an average iteration of time: the
\* quotient 0.5 is rounded to 1 and the loop goes on
C17_Witness ==
  /\ rf.pc = "fitting"
  /\ rf.epochs = 1
  /\ 2 * rf.num = rf.seconds_count
  /\ rf.epochs_to_complete = 1
  /\ rf.keep_training

\* C17 as stated: the value computed after an iteration is the quotient
\* rounded to the nearest integer, halves upwards.
C17_RoundsHalfUp ==
  rf.epochs >= 1 =>
    rf.epochs_to_complete = round_half_up(rf.num, rf.seconds_count)

\* ----------------------------------------------- properties of the factory
\* C16: every candidate built by the factory is legal for the search space:
\* the optimizer and each activation are members of their choice sets, the
\* learning rate, momentum and dropout lie inside their intervals, the layer
\* count is between 1 and the declared bound, each width is inside the
\* width bounds, a list of activations has one entry per layer plus one,
\* and for classification the final (or sole) activation is sigmoid.
C16_CandidateLegal ==
  (factory.pc = "returned" /\ factory.result = "model") =>
    LET cfg == factory.space
        c == factory.model_config
        lc == cfg.HIDDEN_LAYERS_CHOICES[2].value
        layers == c.HIDDEN_LAYERS
        act == c.ACTIVATIONS
    IN  /\ c.OPTIMIZER \in choice(cfg.OPTIMIZER_CHOICE)
        /\ c.LEARNING_RATE \in uniform(cfg.LEARNING_RATE_RANGE)
        /\ c.MOMENTUM \in uniform(cfg.MOMENTUM_RANGE)
        /\ c.DROPOUT \in uniform(cfg.DROPOUT_RANGE)
        /\ layers.kind = "list" =>
             /\ Len(layers.value) \in 1..Max(lc[3], 1)
             /\ \A i \in 1..Len(layers.value) : layers.value[i] \in lc[1]..lc[2]
        /\ IF act.kind = "str"
           THEN /\ act.value \in choice(cfg.ACTIVATION_CHOICES)
                /\ factory.task = CLASSIFICATION => act.value = sigmoid
           ELSE /\ layers.kind = "list"
                /\ Len(act.value) = Len(layers.value) + 1
                /\ \A i \in 1..Len(act.value) :
                     act.value[i] \in choice(cfg.ACTIVATION_CHOICES)
                /\ factory.task = CLASSIFICATION =>
                     act.value[Len(act.value)] = sigmoid

\* ------------------------------------------------- properties of the codec
EvoKeys == {"PRED_NAME", "TASK", "CONFIG", "INPUT_SIZE", "OUTPUT_SIZE"}
ForestKeys == {"PREDICTED_NAME", "CONFIG", "TASK"}

\* d has the shape {MODEL_TYPE, MODEL_DATA: {MODEL, METADATA}} with the
\* tag of m and the metadata keys that the loading of that class reads
ShapeOf(d, m) ==
  /\ DOMAIN d = {"MODEL_TYPE", "MODEL_DATA"}
  /\ DOMAIN d.MODEL_DATA = {"MODEL", "METADATA"}
  /\ d.MODEL_TYPE = m.type
  /\ DOMAIN d.MODEL_DATA.METADATA =
       IF m.type = EVOLUTIONARY_MODEL THEN EvoKeys ELSE ForestKeys

\* the fields of a RandomForestModel that loading gives back
SameForest(a, b) ==
  /\ a.type = b.type
  /\ a.predicted_name = b.predicted_name
  /\ a.config = b.config
  /\ a.task = b.task
  /\ a.model = b.model

\* C12: for every trained model m, load_model(m.to_dict()) is a model with
\* the predicted names, task, config, input size, output size and backend
\* payload of m; the encoding has the shape {MODEL_TYPE, MODEL_DATA: {MODEL,
\* METADATA}} and the metadata keys written are exactly the keys read.
C12_RoundTrip ==
  /\ codec.pc \in {"encoded", "decoded"} =>
       /\ ShapeOf(codec.d, codec.m)
       /\ codec.m.type = EVOLUTIONARY_MODEL =>
            ShapeOf(codec.d.MODEL_DATA.MODEL, codec.m.model)
  /\ codec.pc = "decoded" =>
       /\ DOMAIN codec.loaded = DOMAIN codec.m
       /\ IF codec.m.type = EVOLUTIONARY_MODEL
          THEN /\ codec.loaded.input_size = codec.m.input_size
               /\ codec.loaded.output_size = codec.m.output_size
               /\ codec.loaded.predicted_name = codec.m.predicted_name
               /\ codec.loaded.config = codec.m.config
               /\ codec.loaded.task = codec.m.task
               /\ codec.loaded.type = codec.m.type
               /\ SameForest(codec.loaded.model, codec.m.model)
          ELSE SameForest(codec.loaded, codec.m)

C12_Witness ==
  /\ codec.pc = "decoded"
  /\ codec.m.type = EVOLUTIONARY_MODEL
  /\ codec.loaded.type = EVOLUTIONARY_MODEL
  /\ codec.loaded.model.model = 2
  /\ codec.loaded.predicted_name # codec.loaded.model.predicted_name
  /\ codec.loaded.input_size # codec.loaded.output_size

====
